---------------------------- MODULE Spec2Model ----------------------------
(***************************************************************************)
(* Model of galley/pkg/config/analysis/analyzers/injection/                *)
(* injection-version.go: VersionAnalyzer.Analyze and its helpers           *)
(* tryReturnSidecarInjectorVersion and getContainerNameVersion.            *)
(*                                                                         *)
(* A Go string that the code splits (a container image) is a sequence of   *)
(* tokens, ":" being the separator token; the empty string is <<>>.        *)
(* A Go string that the code only compares is a TLA+ string.               *)
(* A Go map[string]string is a set of <<key, value>> pairs with unique     *)
(* keys; reading a missing key gives "".                                   *)
(***************************************************************************)
EXTENDS Naturals, Sequences, FiniteSets

(***************************************************************************)
(* Well-known names.                                                       *)
(***************************************************************************)
injectorName == "sidecar-injector-webhook"
sidecarInjectorName == "sidecarInjectorWebhook"
proxyImageAnnotation == "sidecar.istio.io/proxyImage"
\* Declared in another file of package injection.
InjectionLabelName == "istio-injection"
InjectionLabelEnableValue == "enabled"
istioProxyName == "istio-proxy"

\* The number of invocations of Analyze on the snapshot.
MaxRuns == 2

EmptyString == <<>>

(***************************************************************************)
(* Go helpers.                                                             *)
(***************************************************************************)
\* m[k] of a Go map[string]string: the zero value "" for a missing key.
MapGet(m, k) ==
    IF \E kv \in m : kv[1] = k
    THEN (CHOOSE kv \in m : kv[1] = k)[2]
    ELSE ""

\* strings.Split(s, sep) for a one-token separator: n separators give n+1 parts.
RECURSIVE Split(_, _)
Split(s, sep) ==
    IF \A i \in 1..Len(s) : s[i] # sep
    THEN <<s>>
    ELSE LET i == CHOOSE j \in 1..Len(s) :
                     s[j] = sep /\ \A k \in 1..(j - 1) : s[k] # sep
         IN <<SubSeq(s, 1, i - 1)>> \o Split(SubSeq(s, i + 1, Len(s)), sep)

Range(s) == {s[i] : i \in 1..Len(s)}

(***************************************************************************)
(* getContainerNameVersion: the tag of "repository:tag", "" otherwise.     *)
(***************************************************************************)
getContainerNameVersion(c) ==
    LET parts == Split(c.Image, ":")
    IN IF Len(parts) # 2 THEN EmptyString ELSE parts[2]

(***************************************************************************)
(* tryReturnSidecarInjectorVersion: "" unless the pod is labelled as the   *)
(* injector; otherwise the version of its first injector container.        *)
(***************************************************************************)
RECURSIVE firstInjectorContainerVersion(_)
firstInjectorContainerVersion(cs) ==
    IF cs = <<>> THEN EmptyString
    ELSE IF Head(cs).Name # injectorName
         THEN firstInjectorContainerVersion(Tail(cs))
         ELSE getContainerNameVersion(Head(cs))

\* Variant: the app label is not checked.
tryReturnSidecarInjectorVersion_noLabel(p) ==
    firstInjectorContainerVersion(p.Containers)

tryReturnSidecarInjectorVersion(p) ==
    IF MapGet(p.Labels, "app") # sidecarInjectorName
    THEN EmptyString
    ELSE firstInjectorContainerVersion(p.Containers)

(***************************************************************************)
(* The snapshot: the Namespace and the Pod collection.                     *)
(***************************************************************************)
NsNames == {"ns1", "ns2"}

NsLabelSets ==
    { {},
      {<<InjectionLabelName, InjectionLabelEnableValue>>},
      {<<InjectionLabelName, "disabled">>} }

NamespaceResources == [FullName : NsNames, Labels : NsLabelSets]

NamespaceCollections ==
    {S \in SUBSET NamespaceResources :
        \A a, b \in S : a.FullName = b.FullName => a = b}

ImgNoColon == <<"repo">>
ImgEmptyTag == <<"repo", ":">>
Img110 == <<"repo", ":", "1.1.0">>
Img120 == <<"repo", ":", "1.2.0">>
Img130 == <<"repo", ":", "1.3.0">>
ImgTwoColons == <<"host", ":", "repo", ":", "1.2.0">>

Proxy(img) == [Name |-> istioProxyName, Image |-> img]
Injector(img) == [Name |-> injectorName, Image |-> img]
App(img) == [Name |-> "app", Image |-> img]

ContainerLists ==
    { <<>>,
      <<App(Img110)>>,
      <<Proxy(Img110)>>, <<Proxy(Img120)>>,
      <<Proxy(ImgNoColon)>>, <<Proxy(ImgEmptyTag)>>, <<Proxy(ImgTwoColons)>>,
      <<Injector(Img120)>>, <<Injector(Img130)>>,
      <<Injector(ImgNoColon)>>, <<Injector(ImgEmptyTag)>>, <<Injector(ImgTwoColons)>>,
      <<Proxy(Img110), Proxy(Img110)>>,
      <<Proxy(Img110), Proxy(Img120)>>,
      <<Proxy(ImgNoColon), Proxy(Img110)>>,
      <<Injector(ImgNoColon), Injector(Img120)>>,
      <<Injector(Img120), Proxy(Img110)>>,
      <<Injector(ImgEmptyTag), Proxy(ImgEmptyTag)>>,
      <<App(Img130), Proxy(Img120)>> }

PodLabelSets == { {}, {<<"app", sidecarInjectorName>>}, {<<"app", "reviews">>} }

PodAnnotationSets ==
    { {}, {<<proxyImageAnnotation, "">>}, {<<proxyImageAnnotation, "custom/proxy">>} }

\* The pod p1 takes every combination of the fields Analyze reads.
FirstPods ==
    [FullName : {"p1"}, Namespace : NsNames, Labels : PodLabelSets,
     Annotations : PodAnnotationSets, Containers : ContainerLists]

\* The pod p2: injector pods of the rollout, and workload pods.
SecondPods ==
    [FullName : {"p2"}, Namespace : NsNames,
     Labels : {{<<"app", sidecarInjectorName>>}},
     Annotations : {{}},
     Containers : { <<Injector(Img120)>>, <<Injector(Img130)>>,
                    <<Injector(Img130), Proxy(Img120)>>,
                    <<Injector(Img130), Proxy(Img110)>> }]

PodCollections ==
    {{}} \cup {{p} : p \in FirstPods} \cup {{q} : q \in SecondPods}
         \cup {{p, q} : p \in FirstPods, q \in SecondPods}

VARIABLES
    namespaces,          \* the snapshot's Namespace collection
    pods,                \* the snapshot's Pod collection
    pc,                  \* "idle", "namespaces", "pods", "join"
    visited,             \* resources the running ForEach has handed to the visitor
    stopped,             \* the visitor asked the running ForEach to stop
    injectedNamespaces,  \* set of namespace names
    injectorVersions,    \* set of versions
    podVersions,         \* sequence of [Resource, ProxyVersion]
    ivTodo,              \* injector versions the range loop has still to yield
    reports,             \* the Report calls of this invocation, in order
    results              \* per finished invocation, the set of its findings

vars == <<namespaces, pods, pc, visited, stopped, injectedNamespaces,
          injectorVersions, podVersions, ivTodo, reports, results>>

Init ==
    /\ namespaces \in NamespaceCollections
    /\ pods \in PodCollections
    /\ pc = "idle"
    /\ visited = {}
    /\ stopped = FALSE
    /\ injectedNamespaces = {}
    /\ injectorVersions = {}
    /\ podVersions = <<>>
    /\ ivTodo = {}
    /\ reports = <<>>
    /\ results = <<>>

(***************************************************************************)
(* c.ForEach(collection, fn): hands every resource to fn once, in any      *)
(* order, until fn returns false.                                          *)
(***************************************************************************)
ForEachDone(collection) == stopped \/ visited = collection

(***************************************************************************)
(* The namespace visitor (lines 61-67).                                    *)
(***************************************************************************)
\* Variant: the label's presence is tested, not its value.
NamespaceVisitor_anyValue(r, injNs) ==
    [injectedNamespaces |->
        IF \E kv \in r.Labels : kv[1] = InjectionLabelName
        THEN injNs \cup {r.FullName}
        ELSE injNs,
     continue |-> TRUE]

NamespaceVisitor(r, injNs) ==
    [injectedNamespaces |->
        IF MapGet(r.Labels, InjectionLabelName) = InjectionLabelEnableValue
        THEN injNs \cup {r.FullName}
        ELSE injNs,
     continue |-> TRUE]

(***************************************************************************)
(* The pod visitor (lines 71-107).                                         *)
(***************************************************************************)
\* Variant: one remembered injector version instead of a set.
AddInjectorVersion_overwrite(ivs, v) ==
    IF v # EmptyString THEN {v} ELSE ivs

AddInjectorVersion(ivs, v) ==
    IF v # EmptyString THEN ivs \cup {v} ELSE ivs

\* Variant: the loop without the test of an empty version (lines 96-98).
RECURSIVE ProxyRecords_keepEmpty(_, _)
ProxyRecords_keepEmpty(r, cs) ==
    IF cs = <<>> THEN <<>>
    ELSE IF Head(cs).Name # istioProxyName
         THEN ProxyRecords_keepEmpty(r, Tail(cs))
         ELSE <<[Resource |-> r,
                 ProxyVersion |-> getContainerNameVersion(Head(cs))]>>
                  \o ProxyRecords_keepEmpty(r, Tail(cs))

\* The loop over pod.Spec.Containers (lines 89-104).
RECURSIVE ProxyRecords(_, _)
ProxyRecords(r, cs) ==
    IF cs = <<>> THEN <<>>
    ELSE IF Head(cs).Name # istioProxyName
         THEN ProxyRecords(r, Tail(cs))
         ELSE LET v == getContainerNameVersion(Head(cs))
              IN IF v = EmptyString
                 THEN ProxyRecords(r, Tail(cs))
                 ELSE <<[Resource |-> r, ProxyVersion |-> v]>>
                          \o ProxyRecords(r, Tail(cs))

\* Variant: the override annotation is not read.
PodVisitor_noOverride(r, injNs, ivs, pvs) ==
    LET ivs2 == AddInjectorVersion(ivs, tryReturnSidecarInjectorVersion(r))
    IN IF r.Namespace \notin injNs
       THEN [injectorVersions |-> ivs2, podVersions |-> pvs, continue |-> TRUE]
       ELSE [injectorVersions |-> ivs2,
             podVersions |-> pvs \o ProxyRecords(r, r.Containers),
             continue |-> TRUE]

\* Variant: the injector is looked for after the two filters.
PodVisitor_detectAfterFilters(r, injNs, ivs, pvs) ==
    IF r.Namespace \notin injNs
    THEN [injectorVersions |-> ivs, podVersions |-> pvs, continue |-> TRUE]
    ELSE IF MapGet(r.Annotations, proxyImageAnnotation) # ""
         THEN [injectorVersions |-> ivs, podVersions |-> pvs, continue |-> TRUE]
         ELSE [injectorVersions |->
                   AddInjectorVersion(ivs, tryReturnSidecarInjectorVersion(r)),
               podVersions |-> pvs \o ProxyRecords(r, r.Containers),
               continue |-> TRUE]

\* Variant: a skipped pod ends the iteration (return false at lines 80, 86).
PodVisitor_stopOnSkip(r, injNs, ivs, pvs) ==
    LET ivs2 == AddInjectorVersion(ivs, tryReturnSidecarInjectorVersion(r))
    IN IF r.Namespace \notin injNs
       THEN [injectorVersions |-> ivs2, podVersions |-> pvs, continue |-> FALSE]
       ELSE IF MapGet(r.Annotations, proxyImageAnnotation) # ""
            THEN [injectorVersions |-> ivs2, podVersions |-> pvs, continue |-> FALSE]
            ELSE [injectorVersions |-> ivs2,
                  podVersions |-> pvs \o ProxyRecords(r, r.Containers),
                  continue |-> TRUE]

PodVisitor(r, injNs, ivs, pvs) ==
    LET ivs2 == AddInjectorVersion(ivs, tryReturnSidecarInjectorVersion(r))
    IN IF r.Namespace \notin injNs
       THEN [injectorVersions |-> ivs2, podVersions |-> pvs, continue |-> TRUE]
       ELSE IF MapGet(r.Annotations, proxyImageAnnotation) # ""
            THEN [injectorVersions |-> ivs2, podVersions |-> pvs, continue |-> TRUE]
            ELSE [injectorVersions |-> ivs2,
                  podVersions |-> pvs \o ProxyRecords(r, r.Containers),
                  continue |-> TRUE]

(***************************************************************************)
(* The cross-join (lines 109-115): the reports of one injector version.    *)
(***************************************************************************)
\* Variant: the comparison of line 111 inverted.
RECURSIVE JoinReports_equal(_, _)
JoinReports_equal(iv, pvs) ==
    IF pvs = <<>> THEN <<>>
    ELSE IF Head(pvs).ProxyVersion = iv
         THEN <<[pod |-> Head(pvs).Resource,
                 observed |-> Head(pvs).ProxyVersion,
                 expected |-> iv]>> \o JoinReports_equal(iv, Tail(pvs))
         ELSE JoinReports_equal(iv, Tail(pvs))

RECURSIVE JoinReports(_, _)
JoinReports(iv, pvs) ==
    IF pvs = <<>> THEN <<>>
    ELSE IF Head(pvs).ProxyVersion # iv
         THEN <<[pod |-> Head(pvs).Resource,
                 observed |-> Head(pvs).ProxyVersion,
                 expected |-> iv]>> \o JoinReports(iv, Tail(pvs))
         ELSE JoinReports(iv, Tail(pvs))

(***************************************************************************)
(* Actions.                                                                *)
(***************************************************************************)
\* Analyze is called (line 57-58): the namespace ForEach begins.
StartAnalyze ==
    /\ pc = "idle"
    /\ Len(results) < MaxRuns
    /\ pc' = "namespaces"
    /\ visited' = {}
    /\ stopped' = FALSE
    /\ injectedNamespaces' = {}
    /\ injectorVersions' = {}
    /\ podVersions' = <<>>
    /\ ivTodo' = {}
    /\ reports' = <<>>
    /\ UNCHANGED <<namespaces, pods, results>>

VisitNamespace(r) ==
    /\ pc = "namespaces"
    /\ ~stopped
    /\ r \in namespaces \ visited
    /\ LET out == NamespaceVisitor(r, injectedNamespaces)
       IN /\ injectedNamespaces' = out.injectedNamespaces
          /\ stopped' = ~out.continue
    /\ visited' = visited \cup {r}
    /\ UNCHANGED <<namespaces, pods, pc, injectorVersions, podVersions,
                   ivTodo, reports, results>>

\* The namespace ForEach returns; lines 69-71.
BeginPodPass ==
    /\ pc = "namespaces"
    /\ ForEachDone(namespaces)
    /\ pc' = "pods"
    /\ visited' = {}
    /\ stopped' = FALSE
    /\ injectorVersions' = {}
    /\ podVersions' = <<>>
    /\ UNCHANGED <<namespaces, pods, injectedNamespaces, ivTodo, reports, results>>

VisitPod(r) ==
    /\ pc = "pods"
    /\ ~stopped
    /\ r \in pods \ visited
    /\ LET out == PodVisitor(r, injectedNamespaces, injectorVersions, podVersions)
       IN /\ injectorVersions' = out.injectorVersions
          /\ podVersions' = out.podVersions
          /\ stopped' = ~out.continue
    /\ visited' = visited \cup {r}
    /\ UNCHANGED <<namespaces, pods, pc, injectedNamespaces, ivTodo, reports, results>>

\* The pod ForEach returns; the range over injectorVersions begins (line 109).
BeginJoin ==
    /\ pc = "pods"
    /\ ForEachDone(pods)
    /\ pc' = "join"
    /\ ivTodo' = injectorVersions
    /\ UNCHANGED <<namespaces, pods, visited, stopped, injectedNamespaces,
                   injectorVersions, podVersions, reports, results>>

\* One iteration of the outer loop; a Go map is ranged over in any order.
JoinStep(iv) ==
    /\ pc = "join"
    /\ iv \in ivTodo
    /\ reports' = reports \o JoinReports(iv, podVersions)
    /\ ivTodo' = ivTodo \ {iv}
    /\ UNCHANGED <<namespaces, pods, pc, visited, stopped, injectedNamespaces,
                   injectorVersions, podVersions, results>>

\* Analyze returns (line 116).
Return ==
    /\ pc = "join"
    /\ ivTodo = {}
    /\ pc' = "idle"
    /\ results' = Append(results, Range(reports))
    /\ UNCHANGED <<namespaces, pods, visited, stopped, injectedNamespaces,
                   injectorVersions, podVersions, ivTodo, reports>>

Next ==
    \/ StartAnalyze
    \/ \E r \in namespaces : VisitNamespace(r)
    \/ BeginPodPass
    \/ \E r \in pods : VisitPod(r)
    \/ BeginJoin
    \/ \E iv \in injectorVersions : JoinStep(iv)
    \/ Return

Spec == Init /\ [][Next]_vars

\* Analyze runs synchronously on one goroutine: an enabled step is taken.
\* The snapshots of this specification have ns1 injected; ns2 is injected,
\* labelled otherwise, unlabelled or absent.
FairInit ==
    /\ Init
    /\ [FullName |-> "ns1",
        Labels |-> {<<InjectionLabelName, InjectionLabelEnableValue>>}] \in namespaces

FairSpec == FairInit /\ [][Next]_vars /\ WF_vars(Next)

(***************************************************************************)
(* What the snapshot says, read off its resources directly.                *)
(***************************************************************************)
V110 == <<"1.1.0">>
V120 == <<"1.2.0">>
V130 == <<"1.3.0">>

ColonCount(img) == Cardinality({i \in 1..Len(img) : img[i] = ":"})

\* Of an image with one colon: what follows the colon.
TagOf(img) ==
    LET i == CHOOSE j \in 1..Len(img) : img[j] = ":"
    IN [k \in 1..(Len(img) - i) |-> img[i + k]]

HasTag(img) == ColonCount(img) = 1 /\ TagOf(img) # <<>>

NsEnabled(name) ==
    \E n \in namespaces :
        /\ n.FullName = name
        /\ <<InjectionLabelName, InjectionLabelEnableValue>> \in n.Labels

Overridden(p) ==
    \E kv \in p.Annotations : kv[1] = proxyImageAnnotation /\ kv[2] # ""

LabelledInjector(p) == <<"app", sidecarInjectorName>> \in p.Labels

ProxyIndexes(p) ==
    {i \in 1..Len(p.Containers) : p.Containers[i].Name = istioProxyName}

InjectorIndexes(p) ==
    {i \in 1..Len(p.Containers) : p.Containers[i].Name = injectorName}

First(S) == CHOOSE i \in S : \A j \in S : i <= j

\* Analyze has returned and its locals hold what it computed.
Finished == pc = "idle" /\ results # <<>>

RecordedPairs == {<<rec.Resource, rec.ProxyVersion>> : rec \in Range(podVersions)}

FindingsOf(p, pv) == {f \in Range(reports) : f.pod = p /\ f.observed = pv}

\* The pairs, versions and findings the snapshot holds, whatever the order
\* of the visits.
SnapshotPairs ==
    UNION {{<<p, TagOf(p.Containers[i].Image)>> :
               i \in {j \in ProxyIndexes(p) : HasTag(p.Containers[j].Image)}} :
           p \in {q \in pods : NsEnabled(q.Namespace) /\ ~Overridden(q)}}

SnapshotInjectorVersions ==
    {TagOf(p.Containers[First(InjectorIndexes(p))].Image) :
        p \in {q \in pods :
                 /\ LabelledInjector(q)
                 /\ InjectorIndexes(q) # {}
                 /\ HasTag(q.Containers[First(InjectorIndexes(q))].Image)}}

SnapshotFindings ==
    {[pod |-> pr[1], observed |-> pr[2], expected |-> iv] :
        pr \in SnapshotPairs, iv \in SnapshotInjectorVersions} \
    {[pod |-> pr[1], observed |-> pr[2], expected |-> pr[2]] : pr \in SnapshotPairs}

C2_NoFindingOutsideInjectedNamespaces ==
    /\ \A i \in 1..Len(reports) : NsEnabled(reports[i].pod.Namespace)
    /\ \A i \in 1..Len(podVersions) : NsEnabled(podVersions[i].Resource.Namespace)

C2_Witness ==
    /\ Finished
    /\ \E p \in pods :
          /\ ~NsEnabled(p.Namespace)
          /\ \E n \in namespaces :
                n.FullName = p.Namespace /\ <<InjectionLabelName, "disabled">> \in n.Labels
          /\ ~Overridden(p)
          /\ \E i \in ProxyIndexes(p) :
                /\ HasTag(p.Containers[i].Image)
                /\ TagOf(p.Containers[i].Image) \notin injectorVersions
    /\ injectorVersions # {}
    /\ reports # <<>>

(***************************************************************************)
(* C3. A pod with a non-empty proxyImage annotation is never recorded and  *)
(* never appears in a finding; a pod of an injected namespace whose        *)
(* annotation is absent or empty is recorded with the tag of each of its   *)
(* tagged istio-proxy containers.                                          *)
(***************************************************************************)
C3_OverriddenPodsAreExempt ==
    /\ \A i \in 1..Len(reports) : ~Overridden(reports[i].pod)
    /\ \A i \in 1..Len(podVersions) : ~Overridden(podVersions[i].Resource)
    /\ Finished =>
          \A p \in pods :
              NsEnabled(p.Namespace) /\ ~Overridden(p) =>
                  \A i \in ProxyIndexes(p) :
                      HasTag(p.Containers[i].Image) =>
                          <<p, TagOf(p.Containers[i].Image)>> \in RecordedPairs

C3_Witness ==
    /\ Finished
    /\ injectorVersions # {}
    /\ \E p \in pods :
          /\ Overridden(p)
          /\ NsEnabled(p.Namespace)
          /\ \E i \in ProxyIndexes(p) :
                /\ HasTag(p.Containers[i].Image)
                /\ TagOf(p.Containers[i].Image) \notin injectorVersions
    /\ \E q \in pods : ~Overridden(q) /\ \E v \in {V110, V120} : <<q, v>> \in RecordedPairs
    /\ reports # <<>>

(***************************************************************************)
(* C4. A pod whose proxy container (the first container named istio-proxy, *)
(* the one the scan for the proxy container finds) has an image with zero  *)
(* colons or with two or more is skipped: it is never recorded and never   *)
(* appears in a finding. An injector container with such an image gives    *)
(* no injector version.                                                    *)
(***************************************************************************)
C4_UnparseableProxyPodIsSkipped ==
    /\ \A p \in pods :
          (ProxyIndexes(p) # {}
             /\ ColonCount(p.Containers[First(ProxyIndexes(p))].Image) # 1) =>
              /\ \A i \in 1..Len(podVersions) : podVersions[i].Resource # p
              /\ \A i \in 1..Len(reports) : reports[i].pod # p
    /\ (\A p \in pods : \A i \in InjectorIndexes(p) :
            ColonCount(p.Containers[i].Image) # 1) => injectorVersions = {}

\* No pod is an injector pod with a tagged injector container.
NoTaggedInjector ==
    \A p \in pods :
        ~(LabelledInjector(p)
            /\ \E i \in InjectorIndexes(p) : HasTag(p.Containers[i].Image))

(***************************************************************************)
(* C5. If no pod is both labelled app=sidecarInjectorWebhook and holds a   *)
(* container named sidecar-injector-webhook with a non-empty tag, no       *)
(* injector version is found and nothing is reported.                      *)
(***************************************************************************)
C5_NoInjectorNoFindings ==
    NoTaggedInjector => injectorVersions = {} /\ reports = <<>>

C5_Witness ==
    /\ Finished
    /\ NoTaggedInjector
    /\ \E p \in pods :
          /\ ~LabelledInjector(p)
          /\ InjectorIndexes(p) # {}
          /\ HasTag(p.Containers[First(InjectorIndexes(p))].Image)
          /\ <<p, V110>> \in RecordedPairs

(***************************************************************************)
(* C6. No pod is recorded twice in podVersions and no finding is reported  *)
(* twice, so a pod has at most as many Report calls as there are injector  *)
(* versions.                                                               *)
(***************************************************************************)
C6_NoDuplicateFinding ==
    /\ \A i, j \in 1..Len(podVersions) :
          podVersions[i].Resource = podVersions[j].Resource => i = j
    /\ \A i, j \in 1..Len(reports) : reports[i] = reports[j] => i = j
    /\ \A p \in pods :
          Cardinality({i \in 1..Len(reports) : reports[i].pod = p})
              <= Cardinality(injectorVersions)

(***************************************************************************)
(* C7. Every invocation on the snapshot ends with the same set of          *)
(* findings, the one the namespace set and the pod set determine, whatever *)
(* the order of the visits and of the range over the injector versions:    *)
(* every recorded pod is compared with every injector version found in the *)
(* pod pass.                                                               *)
(***************************************************************************)
C7_Deterministic ==
    /\ \A i, j \in 1..Len(results) : results[i] = results[j]
    /\ \A i \in 1..Len(results) : results[i] = SnapshotFindings

C7_Witness ==
    /\ Len(results) = 2
    /\ pc = "idle"
    /\ Cardinality(pods) = 2
    /\ Cardinality(injectorVersions) = 2
    /\ Cardinality(results[2]) = 3

\* The pod ForEach has returned.
PodPassOver == pc = "join" \/ Finished

(***************************************************************************)
(* C8. Once the pod pass is over, the version of every injector pod (app   *)
(* label of the injector, injector container with a non-empty tag) is in   *)
(* injectorVersions, whatever its namespace and annotations; and an        *)
(* injector pod of an injected namespace, not overridden, is recorded with *)
(* the tag of its proxy container.                                         *)
(***************************************************************************)
C8_InjectorDetectionIsIndependent ==
    PodPassOver =>
        \A p \in pods :
            LabelledInjector(p) =>
                /\ (InjectorIndexes(p) # {}
                      /\ HasTag(p.Containers[First(InjectorIndexes(p))].Image)) =>
                       TagOf(p.Containers[First(InjectorIndexes(p))].Image)
                           \in injectorVersions
                /\ (NsEnabled(p.Namespace) /\ ~Overridden(p)) =>
                       \A i \in ProxyIndexes(p) :
                           HasTag(p.Containers[i].Image) =>
                               <<p, TagOf(p.Containers[i].Image)>> \in RecordedPairs

C8_Witness ==
    /\ Finished
    /\ \E p \in pods :
          /\ LabelledInjector(p)
          /\ ~NsEnabled(p.Namespace)
          /\ Overridden(p)
          /\ injectorVersions = {V120, V130}
          /\ HasTag(p.Containers[1].Image)
          /\ TagOf(p.Containers[1].Image) = V120
    /\ \E q \in pods :
          LabelledInjector(q) /\ V130 \in injectorVersions /\ <<q, V110>> \in RecordedPairs

(***************************************************************************)
(* C9. injectorVersions and podVersions never hold the empty version, and  *)
(* no finding has an empty observed or expected version; an image with one *)
(* colon and an empty tag gives no version.                                *)
(***************************************************************************)
C9_NoEmptyVersion ==
    /\ EmptyString \notin injectorVersions
    /\ \A i \in 1..Len(podVersions) : podVersions[i].ProxyVersion # EmptyString
    /\ \A i \in 1..Len(reports) :
          reports[i].observed # EmptyString /\ reports[i].expected # EmptyString

C9_Witness ==
    /\ Finished
    /\ \E p \in pods :
          /\ LabelledInjector(p)
          /\ NsEnabled(p.Namespace)
          /\ ~Overridden(p)
          /\ p.Containers = <<Injector(ImgEmptyTag), Proxy(ImgEmptyTag)>>
    /\ reports # <<>>

(***************************************************************************)
(* C10. Every invocation returns. No visitor asks for a stop; the pod pass *)
(* begins when every Namespace resource has been visited, the cross-join   *)
(* when every Pod resource has been visited, and nothing is reported       *)
(* before that.                                                            *)
(***************************************************************************)
C10_PhasesInOrderAndTermination ==
    /\ [](~stopped)
    /\ [][(pc = "namespaces" /\ pc' = "pods") => visited = namespaces]_vars
    /\ [][(pc = "pods" /\ pc' = "join") => visited = pods]_vars
    /\ [](reports # <<>> => pc \in {"join", "idle"} /\ visited = pods)
    /\ [](pc \in {"namespaces", "pods"} => reports = <<>>)
    /\ (pc = "namespaces") ~> (pc = "idle")

C10_Witness ==
    /\ Finished
    /\ visited = pods
    /\ Cardinality(pods) = 2
    /\ Cardinality(namespaces) = 2
    /\ \E p \in pods : ~NsEnabled(p.Namespace)
    /\ \E p \in pods : Overridden(p)
    /\ reports # <<>>

=============================================================================
